---- MODULE Spec2Model ----
(***************************************************************************)
(* Model of the JSON utilities of the trading-data pipeline:               *)
(*   tradingagents/dataflows/json_validator.py                             *)
(*       validate_json_file, load_json_safe, sanitize_json_string,         *)
(*       validate_jsonl_file                                               *)
(*   tradingagents/dataflows/finnhub_utils.py                              *)
(*       get_data_in_range                                                 *)
(* A file is a sequence of bytes over a small alphabet.  The codec         *)
(* (open(..., encoding="utf-8", errors=...)) and the JSON decoder          *)
(* (json.load / json.loads) are modelled by what they do on that           *)
(* alphabet; resource limits (recursion depth, memory) and I/O errors      *)
(* in the middle of a read are outside the model.                          *)
(***************************************************************************)
EXTENDS Naturals, Integers, Sequences, FiniteSets, TLC

(***************************************************************************)
(* Bytes and characters                                                    *)
(***************************************************************************)
LB    == "["
RB    == "]"
LC    == "{"
RC    == "}"
COLON == ":"
COMMA == ","
QUOTE == "\""
D1    == "1"
D2    == "2"
SP    == " "
NL    == "\n"
NUL   == "NUL"
\* 0xC3 0xA9 is the UTF-8 encoding of U+00E9; either byte alone is invalid
LEAD  == "C3"
CONT  == "A9"
\* the three bytes EF BB BF, taken as one unit
BOM   == "EFBBBF"

\* characters that only exist after decoding
EACUTE  == "U+00E9"
BOMCHAR == "U+FEFF"
REPL    == "U+FFFD"

Digits       == {D1, D2}
Whitespace   == {SP, NL}
ControlChars == {NUL, NL}

\* Unicode code point of a character (Python compares str by code point)
Code(c) ==
    CASE c = NUL     -> 0
      [] c = NL      -> 10
      [] c = SP      -> 32
      [] c = QUOTE   -> 34
      [] c = COMMA   -> 44
      [] c = D1      -> 49
      [] c = D2      -> 50
      [] c = COLON   -> 58
      [] c = LB      -> 91
      [] c = RB      -> 93
      [] c = LC      -> 123
      [] c = RC      -> 125
      [] c = EACUTE  -> 233
      [] c = REPL    -> 65533
      [] c = BOMCHAR -> 65279
      [] OTHER       -> 65536

\* s < t for Python str
RECURSIVE StrLess(_, _)
StrLess(s, t) ==
    IF t = <<>> THEN FALSE
    ELSE IF s = <<>> THEN TRUE
    ELSE IF Code(Head(s)) # Code(Head(t)) THEN Code(Head(s)) < Code(Head(t))
    ELSE StrLess(Tail(s), Tail(t))

\* s <= t for Python str
StrLeq(s, t) == s = t \/ StrLess(s, t)

(***************************************************************************)
(* Documents: every decoded value is a record [t, s, items].               *)
(*   t = "num": s is the literal's digits                                  *)
(*   t = "str": s is the string's characters                               *)
(*   t = "arr": items[i].val is the i-th element (items[i].k = <<>>)       *)
(*   t = "obj": items are the (key, value) pairs of the dict, kept sorted  *)
(*              by key (dict equality ignores insertion order)             *)
(*   t = "none": Python's None                                             *)
(***************************************************************************)
Num(digits) == [t |-> "num", s |-> digits, items |-> <<>>]
Str(chars)  == [t |-> "str", s |-> chars, items |-> <<>>]
Arr(items)  == [t |-> "arr", s |-> <<>>, items |-> items]
Obj(items)  == [t |-> "obj", s |-> <<>>, items |-> items]
None        == [t |-> "none", s |-> <<>>, items |-> <<>>]
Pair(k, v)  == [k |-> k, val |-> v]
Elem(v)     == [k |-> <<>>, val |-> v]

\* d[k] = v on a dict: replace the value of an existing key, else insert
RECURSIVE DictSet(_, _, _)
DictSet(items, k, v) ==
    IF items = <<>> THEN <<Pair(k, v)>>
    ELSE IF Head(items).k = k THEN <<Pair(k, v)>> \o Tail(items)
    ELSE IF StrLess(k, Head(items).k) THEN <<Pair(k, v)>> \o items
    ELSE <<Head(items)>> \o DictSet(Tail(items), k, v)

(***************************************************************************)
(* The codec: bytes.decode("utf-8", errors)                                *)
(***************************************************************************)
\* decoding from byte i on, text being what was decoded before it
RECURSIVE DecodeFrom(_, _, _, _)
DecodeFrom(b, i, errors, text) ==
    IF i > Len(b) THEN [ok |-> TRUE, text |-> text]
    ELSE IF b[i] = LEAD /\ i < Len(b) /\ b[i + 1] = CONT
    THEN DecodeFrom(b, i + 2, errors, Append(text, EACUTE))
    ELSE IF b[i] \in {LEAD, CONT}
    THEN CASE errors = "strict"  -> [ok |-> FALSE, text |-> <<>>]
           [] errors = "ignore"  -> DecodeFrom(b, i + 1, errors, text)
           [] errors = "replace" -> DecodeFrom(b, i + 1, errors, Append(text, REPL))
    ELSE DecodeFrom(b, i + 1, errors,
                    Append(text, IF b[i] = BOM THEN BOMCHAR ELSE b[i]))

Decode(b, errors) == DecodeFrom(b, 1, errors, <<>>)

\* str.encode("utf-8")
RECURSIVE Encode(_)
Encode(text) ==
    IF text = <<>> THEN <<>>
    ELSE (CASE Head(text) = EACUTE  -> <<LEAD, CONT>>
            [] Head(text) = BOMCHAR -> <<BOM>>
            [] OTHER                -> <<Head(text)>>) \o Encode(Tail(text))

(***************************************************************************)
(* The JSON decoder: json.loads(text, strict=...)                          *)
(***************************************************************************)
Fail == [ok |-> FALSE, doc |-> None, next |-> 0]
Ok(d, n) == [ok |-> TRUE, doc |-> d, next |-> n]

RECURSIVE SkipWs(_, _)
SkipWs(s, i) ==
    IF i <= Len(s) /\ s[i] \in Whitespace THEN SkipWs(s, i + 1) ELSE i

RECURSIVE ScanDigits(_, _)
ScanDigits(s, i) ==
    IF i <= Len(s) /\ s[i] \in Digits THEN ScanDigits(s, i + 1) ELSE i

\* i is the index after the opening quote
RECURSIVE ScanString(_, _, _, _)
ScanString(s, i, strict, acc) ==
    IF i > Len(s) THEN Fail
    ELSE IF s[i] = QUOTE THEN Ok(Str(acc), i + 1)
    ELSE IF strict /\ s[i] \in ControlChars THEN Fail
    ELSE ScanString(s, i + 1, strict, Append(acc, s[i]))

RECURSIVE ScanOnce(_, _, _)
RECURSIVE ArrayItems(_, _, _, _)
RECURSIVE ObjectItems(_, _, _, _)

\* i is the index after "["
JSONArray(s, i, strict) ==
    LET j == SkipWs(s, i)
    IN  IF j <= Len(s) /\ s[j] = RB THEN Ok(Arr(<<>>), j + 1)
        ELSE ArrayItems(s, j, strict, <<>>)

ArrayItems(s, i, strict, acc) ==
    LET v == ScanOnce(s, i, strict)
    IN  IF ~v.ok THEN Fail
        ELSE LET j == SkipWs(s, v.next)
                 vals == Append(acc, Elem(v.doc))
             IN  IF j > Len(s) THEN Fail
                 ELSE IF s[j] = RB THEN Ok(Arr(vals), j + 1)
                 ELSE IF s[j] # COMMA THEN Fail
                 ELSE ArrayItems(s, SkipWs(s, j + 1), strict, vals)

\* i is the index after "{"
JSONObject(s, i, strict) ==
    LET j == SkipWs(s, i)
    IN  IF j > Len(s) THEN Fail
        ELSE IF s[j] = RC THEN Ok(Obj(<<>>), j + 1)
        ELSE IF s[j] # QUOTE THEN Fail
        ELSE ObjectItems(s, j + 1, strict, <<>>)

\* i is the index after the opening quote of the next key
ObjectItems(s, i, strict, acc) ==
    LET key == ScanString(s, i, strict, <<>>)
    IN  IF ~key.ok THEN Fail
        ELSE LET j == SkipWs(s, key.next)
             IN  IF j > Len(s) \/ s[j] # COLON THEN Fail
                 ELSE LET v == ScanOnce(s, SkipWs(s, j + 1), strict)
                      IN  IF ~v.ok THEN Fail
                          ELSE LET j2 == SkipWs(s, v.next)
                                   pairs == DictSet(acc, key.doc.s, v.doc)
                               IN  IF j2 > Len(s) THEN Fail
                                   ELSE IF s[j2] = RC THEN Ok(Obj(pairs), j2 + 1)
                                   ELSE IF s[j2] # COMMA THEN Fail
                                   ELSE LET j3 == SkipWs(s, j2 + 1)
                                        IN  IF j3 > Len(s) \/ s[j3] # QUOTE THEN Fail
                                            ELSE ObjectItems(s, j3 + 1, strict, pairs)

ScanOnce(s, i, strict) ==
    IF i > Len(s) THEN Fail
    ELSE IF s[i] = QUOTE THEN ScanString(s, i + 1, strict, <<>>)
    ELSE IF s[i] = LC THEN JSONObject(s, i + 1, strict)
    ELSE IF s[i] = LB THEN JSONArray(s, i + 1, strict)
    ELSE IF s[i] \in Digits
    THEN LET j == ScanDigits(s, i) IN Ok(Num(SubSeq(s, i, j - 1)), j)
    ELSE Fail

\* json.loads(text, strict=strict): one value, surrounded by whitespace only
JsonLoads(text, strict) ==
    LET r == ScanOnce(text, SkipWs(text, 1), strict)
    IN  IF r.ok /\ SkipWs(text, r.next) = Len(text) + 1
        THEN [ok |-> TRUE, doc |-> r.doc]
        ELSE [ok |-> FALSE, doc |-> None]

\* json.dumps(doc, ensure_ascii=False), as the test scripts write their files
RECURSIVE JsonDumps(_)
RECURSIVE DumpItems(_, _)
DumpItems(items, isObj) ==
    IF items = <<>> THEN <<>>
    ELSE (IF isObj THEN <<QUOTE>> \o Head(items).k \o <<QUOTE, COLON, SP>> ELSE <<>>)
         \o JsonDumps(Head(items).val)
         \o (IF Len(items) > 1 THEN <<COMMA, SP>> ELSE <<>>)
         \o DumpItems(Tail(items), isObj)

JsonDumps(d) ==
    CASE d.t = "num" -> d.s
      [] d.t = "str" -> <<QUOTE>> \o d.s \o <<QUOTE>>
      [] d.t = "arr" -> <<LB>> \o DumpItems(d.items, FALSE) \o <<RB>>
      [] d.t = "obj" -> <<LC>> \o DumpItems(d.items, TRUE) \o <<RC>>

(***************************************************************************)
(* Files                                                                   *)
(***************************************************************************)
\* length of the byte sequences enumerated exhaustively
MaxLen == 3
\* number of lines of the enumerated JSONL files
MaxLines == 3
\* number of entries and key length of the enumerated date-keyed mappings
MaxEntries == 2
MaxKeyLen == 2
\* largest explicit error budget passed to validate_jsonl_file
MaxBudget == 2

Missing       == [kind |-> "missing", bytes |-> <<>>]
\* the path exists but open() raises OSError (a directory, no permission)
Unreadable    == [kind |-> "unreadable", bytes |-> <<>>]
Regular(b)    == [kind |-> "regular", bytes |-> b]

SeqsUpTo(S, n) == UNION {[1..k -> S] : k \in 0..n}

RawBytes == {LB, RB, D1, QUOTE, NUL, LEAD, CONT, SP, NL}
RawFiles == {Regular(b) : b \in SeqsUpTo(RawBytes, MaxLen)}

\* date-keyed mappings, as the formatted finnhub files hold them
MapKeys   == {k \in SeqsUpTo(Digits, MaxKeyLen) : k # <<>>}
MapValues == {Arr(<<>>), Arr(<<Elem(Num(<<D1>>))>>), Num(<<D1>>)}

RECURSIVE DictOf(_)
DictOf(f) ==
    IF DOMAIN f = {} THEN <<>>
    ELSE LET k == CHOOSE x \in DOMAIN f : TRUE
         IN  DictSet(DictOf([y \in DOMAIN f \ {k} |-> f[y]]), k, f[k])

Mappings ==
    {Obj(DictOf(f)) : f \in UNION {[S -> MapValues] :
                          S \in {T \in SUBSET MapKeys : Cardinality(T) <= MaxEntries}}}

\* {"2024-01-01": [1], "2024-02-01": [], "2024-03-01": [2]} with the dates
\* abbreviated to "1" < "12" < "2"
ExampleMapping ==
    Obj(<<Pair(<<D1>>, Arr(<<Elem(Num(<<D1>>))>>)),
          Pair(<<D1, D2>>, Arr(<<>>)),
          Pair(<<D2>>, Arr(<<Elem(Num(<<D2>>))>>))>>)

\* a file written with json.dump(doc, f, ensure_ascii=False), encoding utf-8
Written(doc) == Regular(Encode(JsonDumps(doc)))

MapFiles == {Written(d) : d \in Mappings \cup {ExampleMapping}}

\* documents with non-ASCII text, as test_unicode_scenarios writes them
UnicodeDocs ==
    {Str(<<EACUTE>>),
     Arr(<<Elem(Str(<<EACUTE, D1>>)), Elem(Num(<<D2>>))>>),
     Obj(<<Pair(<<D1>>, Str(<<EACUTE, SP, EACUTE>>))>>),
     Obj(<<Pair(<<EACUTE>>, Arr(<<Elem(Str(<<>>))>>))>>)}

InsertAt(b, p, x) == SubSeq(b, 1, p) \o <<x>> \o SubSeq(b, p + 1, Len(b))

\* a written file with one stray byte (NUL, or half of a UTF-8 sequence)
\* or a byte order mark somewhere in it
Damaged(b) == {Regular(InsertAt(b, p, x)) : p \in 0..Len(b), x \in {NUL, LEAD, CONT, BOM}}

DamagedFiles == UNION {Damaged(Encode(JsonDumps(d))) : d \in UnicodeDocs}

LoadFiles ==
    {Missing, Unreadable} \cup RawFiles \cup MapFiles
        \cup {Written(d) : d \in UnicodeDocs} \cup DamagedFiles

Fallback == Obj(<<Pair(<<D1>>, Num(<<D1>>))>>)
Defaults == {None, Fallback}

(***************************************************************************)
(* State                                                                   *)
(***************************************************************************)
VARIABLES
    file,        \* the file at the path the calls are made on
    pc,          \* position of the call in progress
    caller,      \* the entry point called: "load", "range", "jsonl"
    raised,      \* the exception that left the entry point, or "none"
    default,     \* load_json_safe: default
    attempts,    \* load_json_safe: the strategies run so far, with outcome
    opens,       \* number of open() calls made by the call in progress
    logs,        \* levels of the log entries emitted by the call in progress
    result,      \* load_json_safe: the returned value
    start_date,  \* get_data_in_range: start_date
    end_date,    \* get_data_in_range: end_date
    filtered,    \* get_data_in_range: the returned dict
    max_errors,  \* validate_jsonl_file: max_errors
    lines,       \* validate_jsonl_file: the lines the file iterator yields
    i,           \* validate_jsonl_file: enumerate() counter of the last line read
    error_lines, \* validate_jsonl_file: error_lines
    examined,    \* validate_jsonl_file: numbers of the lines handed to json.loads
    ret,         \* validate_jsonl_file: the returned pair
    raw_string,  \* sanitize_json_string: the string passed as json_string
    sanitized,   \* sanitize_json_string: the values returned, one per application
    is_valid,    \* validate_json_file: the returned flag, "none" before the call
    dir,         \* validate_data_directory: the files os.walk finds under data_dir
    walked,      \* validate_data_directory: number of files visited
    results      \* validate_data_directory: results

vars == <<file, pc, caller, raised, default, attempts, opens, logs, result,
          start_date, end_date, filtered, max_errors, lines, i,
          error_lines, examined, ret, raw_string, sanitized, is_valid,
          dir, walked, results>>

loadVars  == <<default, attempts, opens, result>>
rangeVars == <<start_date, end_date, filtered>>
jsonlVars == <<max_errors, lines, i, error_lines, examined, ret>>
otherVars == <<raw_string, sanitized, is_valid, dir, walked, results>>

NoRet == [valid |-> FALSE, error_lines |-> <<>>]
NoDir == [exists |-> FALSE, files |-> <<>>]
NoResults == [valid |-> FALSE, error |-> ""]

Idle ==
    /\ pc = "idle"
    /\ caller = "none"
    /\ raised = "none"
    /\ default = None
    /\ attempts = <<>>
    /\ opens = 0
    /\ logs = <<>>
    /\ result = None
    /\ start_date = <<>>
    /\ end_date = <<>>
    /\ filtered = None
    /\ max_errors = 0
    /\ lines = <<>>
    /\ i = 0
    /\ error_lines = <<>>
    /\ examined = <<>>
    /\ ret = NoRet
    /\ raw_string = <<>>
    /\ sanitized = <<>>
    /\ is_valid = "none"
    /\ dir = NoDir
    /\ walked = 0
    /\ results = NoResults

(***************************************************************************)
(* Exceptions: what a try block raises, and which except clauses take it   *)
(***************************************************************************)
\* json.JSONDecodeError, UnicodeDecodeError and OSError all derive from
\* Exception
Caught(handlers, exc) == exc \in handlers \/ "Exception" \in handlers

\* with open(path, "r", encoding="utf-8", errors=errors) as f: f.read()
ReadText(f, errors) ==
    IF f.kind # "regular" THEN [exc |-> "OSError", text |-> <<>>]
    ELSE LET t == Decode(f.bytes, errors)
         IN  [exc |-> IF t.ok THEN "none" ELSE "UnicodeDecodeError", text |-> t.text]

\* json.loads on the text read, or the exception the read raised
LoadText(t, text) ==
    IF t.exc # "none" THEN [exc |-> t.exc, doc |-> None]
    ELSE LET r == JsonLoads(text, FALSE)
         IN  [exc |-> IF r.ok THEN "none" ELSE "JSONDecodeError", doc |-> r.doc]

(***************************************************************************)
(* json_validator.load_json_safe                                           *)
(***************************************************************************)
\* sanitize_json_string with replace('\x00', '', 1): the first NUL only
sanitize_first_nul(json_string) ==
    LET nuls == {n \in 1..Len(json_string) : json_string[n] = NUL}
    IN  IF nuls = {} THEN json_string
        ELSE LET p == CHOOSE n \in nuls : \A m \in nuls : n <= m
             IN  SubSeq(json_string, 1, p - 1)
                     \o SubSeq(json_string, p + 1, Len(json_string))

\* lines 79-96: json_string.replace('\x00', '')
RECURSIVE sanitize_json_string(_)
sanitize_json_string(json_string) ==
    IF json_string = <<>> THEN <<>>
    ELSE IF Head(json_string) = NUL THEN sanitize_json_string(Tail(json_string))
    ELSE <<Head(json_string)>> \o sanitize_json_string(Tail(json_string))

\* EnterLoad without the os.path.exists test
EnterLoad_NoExistsCheck(d) ==
    /\ default' = d
    /\ attempts' = <<>>
    /\ opens' = 0
    /\ raised' = "none"
    /\ logs' = <<>>
    /\ result' = None
    /\ pc' = "s1"

\* lines 46-48, entered with the default the caller passes
EnterLoad(d) ==
    /\ default' = d
    /\ attempts' = <<>>
    /\ opens' = 0
    /\ raised' = "none"
    /\ IF file.kind = "missing"
       THEN /\ logs' = <<"warning">>
            /\ result' = d
            /\ pc' = "loaded"
       ELSE /\ logs' = <<>>
            /\ result' = None
            /\ pc' = "s1"

LoadCall(d) ==
    /\ pc = "idle"
    /\ caller' = "load"
    /\ EnterLoad(d)
    /\ UNCHANGED <<file, rangeVars, jsonlVars, otherVars>>

Attempt(k, ok) == [strategy |-> k, ok |-> ok]

\* Try with "json.load(f)" in place of "return json.load(f)", as in
\* validate_json_file: the parsed value is dropped and control goes on
Try_DropsValue(k, r, handlers, level, next) ==
    /\ opens' = opens + 1
    /\ attempts' = Append(attempts, [strategy |-> k, ok |-> r.exc = "none"])
    /\ IF r.exc = "none" \/ Caught(handlers, r.exc)
       THEN /\ logs' = IF r.exc = "none" THEN logs ELSE Append(logs, level)
            /\ pc' = next
            /\ result' = IF next = "loaded" THEN default ELSE result
            /\ UNCHANGED raised
       ELSE /\ raised' = r.exc
            /\ pc' = "raised"
            /\ UNCHANGED <<logs, result>>
    /\ UNCHANGED <<file, caller, default, rangeVars, jsonlVars, otherVars>>

\* Try with a final "return None" in place of "return default"
Try_ReturnsNone(k, r, handlers, level, next) ==
    /\ opens' = opens + 1
    /\ attempts' = Append(attempts, [strategy |-> k, ok |-> r.exc = "none"])
    /\ IF r.exc = "none"
       THEN /\ result' = r.doc
            /\ pc' = "loaded"
            /\ UNCHANGED <<logs, raised>>
       ELSE IF Caught(handlers, r.exc)
       THEN /\ logs' = Append(logs, level)
            /\ pc' = next
            /\ result' = IF next = "loaded" THEN None ELSE result
            /\ UNCHANGED raised
       ELSE /\ raised' = r.exc
            /\ pc' = "raised"
            /\ UNCHANGED <<logs, result>>
    /\ UNCHANGED <<file, caller, default, rangeVars, jsonlVars, otherVars>>

\* one try/except block of the chain: strategy k gave r, its except clauses
\* are handlers, on failure level is logged and control goes on to next
Try(k, r, handlers, level, next) ==
    /\ opens' = opens + 1
    /\ attempts' = Append(attempts, Attempt(k, r.exc = "none"))
    /\ IF r.exc = "none"
       THEN /\ result' = r.doc
            /\ pc' = "loaded"
            /\ UNCHANGED <<logs, raised>>
       ELSE IF Caught(handlers, r.exc)
       THEN /\ logs' = Append(logs, level)
            /\ pc' = next
            /\ result' = IF next = "loaded" THEN default ELSE result
            /\ UNCHANGED raised
       ELSE /\ raised' = r.exc
            /\ pc' = "raised"
            /\ UNCHANGED <<logs, result>>
    /\ UNCHANGED <<file, caller, default, rangeVars, jsonlVars, otherVars>>

\* Handlers1 without the "except Exception" clause
Handlers1_OnlyDecodeError == {"JSONDecodeError"}

\* lines 50-57
Handlers1 == {"JSONDecodeError", "Exception"}

Strategy1Result ==
    LET t == ReadText(file, "strict") IN LoadText(t, t.text)

Strategy1 ==
    /\ pc = "s1"
    /\ Try(1, Strategy1Result, Handlers1, "warning", "s2")

\* lines 59-64
Handlers2 == {"Exception"}

Strategy2Result ==
    LET t == ReadText(file, "ignore") IN LoadText(t, t.text)

\* Strategy2 with the parsed value kept but not returned
Strategy2_FallsThrough ==
    /\ pc = "s2"
    /\ opens' = opens + 1
    /\ attempts' = Append(attempts, [strategy |-> 2, ok |-> Strategy2Result.exc = "none"])
    /\ result' = IF Strategy2Result.exc = "none" THEN Strategy2Result.doc ELSE result
    /\ logs' = IF Strategy2Result.exc = "none" THEN logs ELSE Append(logs, "warning")
    /\ pc' = "s3"
    /\ UNCHANGED <<file, caller, raised, default, rangeVars, jsonlVars, otherVars>>

Strategy2 ==
    /\ pc = "s2"
    /\ Try(2, Strategy2Result, Handlers2, "warning", "s3")

\* Handlers3 with "except json.JSONDecodeError" in place of "except Exception"
Handlers3_OnlyDecodeError == {"JSONDecodeError"}

\* lines 66-76: a failure is logged as an error and the default returned
Handlers3 == {"Exception"}

Strategy3Result ==
    LET t == ReadText(file, "replace") IN LoadText(t, sanitize_json_string(t.text))

\* Strategy3 with logger.warning in place of logger.error
Strategy3_LogsWarning ==
    /\ pc = "s3"
    /\ Try(3, Strategy3Result, Handlers3, "warning", "loaded")

Strategy3 ==
    /\ pc = "s3"
    /\ Try(3, Strategy3Result, Handlers3, "error", "loaded")

\* the call is over: it returned to its caller, or an exception left it
Finished ==
    \/ caller = "load" /\ pc = "loaded"
    \/ pc = "done"
    \/ pc = "raised"

\* the caller takes the outcome; the next call starts afresh
Return ==
    /\ Finished
    /\ pc' = "idle"
    /\ caller' = "none"
    /\ raised' = "none"
    /\ default' = None
    /\ attempts' = <<>>
    /\ opens' = 0
    /\ logs' = <<>>
    /\ result' = None
    /\ start_date' = <<>>
    /\ end_date' = <<>>
    /\ filtered' = None
    /\ max_errors' = 0
    /\ lines' = <<>>
    /\ i' = 0
    /\ error_lines' = <<>>
    /\ examined' = <<>>
    /\ ret' = NoRet
    /\ raw_string' = <<>>
    /\ sanitized' = <<>>
    /\ is_valid' = "none"
    /\ dir' = NoDir
    /\ walked' = 0
    /\ results' = NoResults
    /\ UNCHANGED file

InitLoad == file \in LoadFiles /\ Idle

NextLoad ==
    \/ \E d \in Defaults : LoadCall(d)
    \/ Strategy1
    \/ Strategy2
    \/ Strategy3
    \/ Return

SpecLoad == InitLoad /\ [][NextLoad]_vars

(***************************************************************************)
(* finnhub_utils.get_data_in_range                                         *)
(***************************************************************************)
\* "not data"
Falsy(d) ==
    \/ d.t = "none"
    \/ d.t = "str" /\ d.s = <<>>
    \/ d.t \in {"arr", "obj"} /\ d.items = <<>>

\* len(value) raises TypeError on a value that has no length
HasLen(v) == v.t \in {"str", "arr", "obj"}
PyLen(v)  == IF v.t = "str" THEN Len(v.s) ELSE Len(v.items)

\* start_date <= key <= end_date
InRange(key, start, end) == StrLeq(start, key) /\ StrLeq(key, end)

\* the loop of lines 41-44 over data.items(), filling filtered_data
RECURSIVE FilterItems(_, _, _, _)
FilterItems(items, start, end, filtered_data) ==
    IF items = <<>> THEN [exc |-> "none", items |-> filtered_data]
    ELSE LET key   == Head(items).k
             value == Head(items).val
         IN  IF InRange(key, start, end) /\ ~HasLen(value)
             THEN [exc |-> "TypeError", items |-> <<>>]
             ELSE FilterItems(Tail(items), start, end,
                              IF InRange(key, start, end) /\ PyLen(value) > 0
                              THEN DictSet(filtered_data, key, value)
                              ELSE filtered_data)

\* lines 10-34: the path is resolved and load_json_safe(data_path, default={})
\* is entered
RangeCall(start, end) ==
    /\ pc = "idle"
    /\ caller' = "range"
    /\ start_date' = start
    /\ end_date' = end
    /\ EnterLoad(Obj(<<>>))
    /\ UNCHANGED <<file, filtered, jsonlVars, otherVars>>

\* lines 36-45, on the value load_json_safe returned; no exception is
\* handled here
RangeFilter ==
    /\ pc = "loaded"
    /\ caller = "range"
    /\ IF Falsy(result)
       THEN /\ logs' = Append(logs, "warning")
            /\ filtered' = Obj(<<>>)
            /\ pc' = "done"
            /\ UNCHANGED raised
       ELSE IF result.t # "obj"
       THEN /\ raised' = "AttributeError"
            /\ pc' = "raised"
            /\ UNCHANGED <<logs, filtered>>
       ELSE LET r == FilterItems(result.items, start_date, end_date, <<>>)
            IN  IF r.exc = "none"
                THEN /\ filtered' = Obj(r.items)
                     /\ pc' = "done"
                     /\ UNCHANGED <<logs, raised>>
                ELSE /\ raised' = r.exc
                     /\ pc' = "raised"
                     /\ UNCHANGED <<logs, filtered>>
    /\ UNCHANGED <<file, caller, loadVars, start_date, end_date, jsonlVars, otherVars>>

Dates == {<<D1>>, <<D1, D2>>, <<D1, D2, D1>>, <<D2>>}

RangeFiles ==
    {Missing, Unreadable} \cup MapFiles
        \cup {Written(d) : d \in UnicodeDocs}
        \cup {Regular(<<>>), Regular(<<LB, RB>>), Regular(<<D1>>), Regular(<<LB, D1>>)}
        \cup Damaged(Encode(JsonDumps(ExampleMapping)))

InitRange == file \in RangeFiles /\ Idle

NextRange ==
    \/ \E start \in Dates, end \in Dates : RangeCall(start, end)
    \/ Strategy1
    \/ Strategy2
    \/ Strategy3
    \/ RangeFilter
    \/ Return

SpecRange == InitRange /\ [][NextRange]_vars

(***************************************************************************)
(* json_validator.validate_jsonl_file                                      *)
(***************************************************************************)
\* the lines a text file yields when iterated, line ends kept
RECURSIVE SplitLines(_, _)
SplitLines(text, cur) ==
    IF text = <<>> THEN (IF cur = <<>> THEN <<>> ELSE <<cur>>)
    ELSE IF Head(text) = NL
    THEN <<Append(cur, NL)>> \o SplitLines(Tail(text), <<>>)
    ELSE SplitLines(Tail(text), Append(cur, Head(text)))

\* Strip for a test written "if not line:", without the strip()
Strip_Nothing(s) == s

\* str.strip()
RECURSIVE LStrip(_)
LStrip(s) == IF s # <<>> /\ Head(s) \in Whitespace THEN LStrip(Tail(s)) ELSE s

RECURSIVE RStrip(_)
RStrip(s) ==
    IF s # <<>> /\ s[Len(s)] \in Whitespace THEN RStrip(SubSeq(s, 1, Len(s) - 1)) ELSE s

Strip(s) == RStrip(LStrip(s))

\* max_errors: int = 10
DefaultMaxErrors == 10

\* the except clause around the loop, and the one around json.loads
OuterHandlers == {"Exception"}
LineHandlers  == {"JSONDecodeError"}

\* lines 110-117 and 131-133: the existence check, the open, and the return
\* of the outer except clause when the open fails
JsonlCall(m) ==
    /\ pc = "idle"
    /\ caller' = "jsonl"
    /\ max_errors' = m
    /\ i' = 0
    /\ error_lines' = <<>>
    /\ examined' = <<>>
    /\ IF file.kind = "missing"
       THEN /\ logs' = <<"error">>
            /\ opens' = 0
            /\ ret' = [valid |-> FALSE, error_lines |-> <<>>]
            /\ pc' = "done"
            /\ UNCHANGED <<lines, raised>>
       ELSE LET t == ReadText(file, "ignore")
            IN  /\ opens' = 1
                /\ IF t.exc = "none"
                   THEN /\ logs' = <<>>
                        /\ lines' = SplitLines(t.text, <<>>)
                        /\ pc' = "scan"
                        /\ UNCHANGED <<ret, raised>>
                   ELSE IF Caught(OuterHandlers, t.exc)
                   THEN /\ logs' = <<"error">>
                        /\ ret' = [valid |-> FALSE, error_lines |-> <<>>]
                        /\ pc' = "done"
                        /\ UNCHANGED <<lines, raised>>
                   ELSE /\ raised' = t.exc
                        /\ pc' = "raised"
                        /\ UNCHANGED <<lines, logs, ret>>
    /\ UNCHANGED <<file, default, attempts, result, rangeVars, otherVars>>

\* JsonlLine with enumerate(f) in place of enumerate(f, 1)
JsonlLine_CountsFromZero ==
    /\ pc = "scan"
    /\ i < Len(lines)
    /\ i' = i + 1
    /\ IF Strip(lines[i + 1]) = <<>>
       THEN UNCHANGED <<pc, error_lines, examined, logs, ret>>
       ELSE /\ examined' = Append(examined, i)
            /\ UNCHANGED ret
            /\ IF JsonLoads(lines[i + 1], FALSE).ok
               THEN UNCHANGED <<pc, error_lines, logs>>
               ELSE /\ error_lines' = Append(error_lines, i)
                    /\ logs' = Append(logs, "debug")
                    /\ pc' = IF Len(error_lines) + 1 >= max_errors THEN "break" ELSE pc
    /\ UNCHANGED <<file, caller, raised, loadVars, rangeVars, max_errors, lines,
                   otherVars>>

\* lines 118-133: one iteration of the loop; json.loads raises
\* JSONDecodeError on a line it cannot parse
JsonlLine ==
    /\ pc = "scan"
    /\ i < Len(lines)
    /\ i' = i + 1
    /\ LET line == lines[i + 1]
       IN  IF Strip(line) = <<>>
           THEN UNCHANGED <<pc, error_lines, examined, logs, ret>>
           ELSE /\ examined' = Append(examined, i + 1)
                /\ IF JsonLoads(line, FALSE).ok
                   THEN UNCHANGED <<pc, error_lines, logs, ret>>
                   ELSE IF Caught(LineHandlers, "JSONDecodeError")
                   THEN /\ error_lines' = Append(error_lines, i + 1)
                        /\ UNCHANGED ret
                        /\ IF Len(error_lines) + 1 >= max_errors
                           THEN /\ logs' = logs \o <<"debug", "warning">>
                                /\ pc' = "break"
                           ELSE /\ logs' = Append(logs, "debug")
                                /\ UNCHANGED pc
                   ELSE /\ logs' = Append(logs, "error")
                        /\ ret' = [valid |-> FALSE, error_lines |-> error_lines]
                        /\ pc' = "done"
                        /\ UNCHANGED error_lines
    /\ UNCHANGED <<file, caller, raised, loadVars, rangeVars, max_errors, lines,
                   otherVars>>

\* JsonlReturn with is_valid = len(error_lines) < max_errors
JsonlReturn_ValidUnderBudget ==
    /\ \/ pc = "break"
       \/ pc = "scan" /\ i = Len(lines)
    /\ pc' = "done"
    /\ ret' = [valid |-> Len(error_lines) < max_errors, error_lines |-> error_lines]
    /\ logs' = IF Len(error_lines) = 0 THEN logs ELSE Append(logs, "warning")
    /\ UNCHANGED <<file, caller, raised, loadVars, rangeVars, max_errors, lines, i,
                   error_lines, examined, otherVars>>

\* lines 135-139, after the loop ended or was left
JsonlReturn ==
    /\ \/ pc = "break"
       \/ pc = "scan" /\ i = Len(lines)
    /\ pc' = "done"
    /\ ret' = [valid |-> Len(error_lines) = 0, error_lines |-> error_lines]
    /\ logs' = IF Len(error_lines) = 0 THEN logs ELSE Append(logs, "warning")
    /\ UNCHANGED <<file, caller, raised, loadVars, rangeVars, max_errors, lines, i,
                   error_lines, examined, otherVars>>

\* lines of the enumerated JSONL files: a value, an unclosed bracket, an empty
\* line, a line of a space and an undecodable byte, a value with an
\* undecodable byte in it
SampleLines == {<<D1>>, <<LB>>, <<>>, <<SP, CONT>>, <<LB, LEAD, RB>>}

RECURSIVE JoinLines(_)
JoinLines(ls) ==
    IF ls = <<>> THEN <<>>
    ELSE IF Len(ls) = 1 THEN Head(ls)
    ELSE Head(ls) \o <<NL>> \o JoinLines(Tail(ls))

JsonlFiles ==
    {Missing, Unreadable}
        \cup {Regular(JoinLines(ls) \o tail) :
                ls \in SeqsUpTo(SampleLines, MaxLines), tail \in {<<>>, <<NL>>}}

Budgets == 0..MaxBudget \cup {DefaultMaxErrors}

InitJsonl == file \in JsonlFiles /\ Idle

NextJsonl ==
    \/ \E m \in Budgets : JsonlCall(m)
    \/ JsonlLine
    \/ JsonlReturn
    \/ Return

SpecJsonl == InitJsonl /\ [][NextJsonl]_vars

(***************************************************************************)
(* json_validator.sanitize_json_string, applied to a string and then to its *)
(* own result                                                               *)
(***************************************************************************)
MaxApplications == 2

SanitizeCall(s) ==
    /\ pc = "idle"
    /\ caller' = "sanitize"
    /\ raw_string' = s
    /\ sanitized' = <<sanitize_json_string(s)>>
    /\ pc' = "done"
    /\ UNCHANGED <<file, raised, loadVars, logs, rangeVars, jsonlVars, is_valid,
                   dir, walked, results>>

SanitizeAgain ==
    /\ pc = "done"
    /\ caller = "sanitize"
    /\ Len(sanitized) < MaxApplications
    /\ sanitized' = Append(sanitized, sanitize_json_string(sanitized[Len(sanitized)]))
    /\ UNCHANGED <<file, pc, caller, raised, loadVars, logs, rangeVars, jsonlVars,
                   raw_string, is_valid, dir, walked, results>>

\* strings with NUL characters at any place, among brackets, digits, quotes
\* and spaces
Strings == SeqsUpTo({NUL, LB, D1, QUOTE, SP}, MaxLen)

InitSanitize == file = Missing /\ Idle

NextSanitize ==
    \/ \E s \in Strings : SanitizeCall(s)
    \/ SanitizeAgain
    \/ Return

SpecSanitize == InitSanitize /\ [][NextSanitize]_vars

(***************************************************************************)
(* json_validator.validate_json_file                                       *)
(***************************************************************************)
\* json.load(f): the strict parse of the text read, or the exception the
\* read raised
StrictLoadText(t) ==
    IF t.exc # "none" THEN [exc |-> t.exc, doc |-> None]
    ELSE LET r == JsonLoads(t.text, TRUE)
         IN  [exc |-> IF r.ok THEN "none" ELSE "JSONDecodeError", doc |-> r.doc]

ValidateHandlers == {"JSONDecodeError", "Exception"}

\* validate_json_file with the open() call of validate_jsonl_file:
\* errors="ignore"
validate_json_file_ignoring(f) ==
    IF f.kind = "missing" THEN [exc |-> "none", valid |-> FALSE]
    ELSE LET r == StrictLoadText(ReadText(f, "ignore"))
         IN  IF r.exc = "none" THEN [exc |-> "none", valid |-> TRUE]
             ELSE IF Caught(ValidateHandlers, r.exc) THEN [exc |-> "none", valid |-> FALSE]
             ELSE [exc |-> r.exc, valid |-> FALSE]

\* lines 9-32, on the file f found at file_path: the flag returned, or the
\* exception that leaves the call
validate_json_file(f) ==
    IF f.kind = "missing" THEN [exc |-> "none", valid |-> FALSE]
    ELSE LET r == StrictLoadText(ReadText(f, "strict"))
         IN  IF r.exc = "none" THEN [exc |-> "none", valid |-> TRUE]
             ELSE IF Caught(ValidateHandlers, r.exc) THEN [exc |-> "none", valid |-> FALSE]
             ELSE [exc |-> r.exc, valid |-> FALSE]

\* validate_json_file(path) called on the file, at the start or, as
\* test_json_validator_module does, after load_json_safe(path) returned
ValidateCall ==
    /\ \/ pc = "idle"
       \/ caller = "load" /\ pc = "loaded"
    /\ caller' = "validate"
    /\ LET v == validate_json_file(file)
       IN  /\ is_valid' = v.valid
           /\ raised' = v.exc
           /\ pc' = IF v.exc = "none" THEN "done" ELSE "raised"
           /\ logs' = IF v.valid THEN logs ELSE Append(logs, "error")
    /\ UNCHANGED <<file, loadVars, rangeVars, jsonlVars, raw_string, sanitized,
                   dir, walked, results>>

InitAgree == file \in LoadFiles /\ Idle

NextAgree ==
    \/ \E d \in Defaults : LoadCall(d)
    \/ Strategy1
    \/ Strategy2
    \/ Strategy3
    \/ ValidateCall
    \/ Return

SpecAgree == InitAgree /\ [][NextAgree]_vars

(***************************************************************************)
(* json_validator.validate_data_directory                                  *)
(***************************************************************************)
\* validate_jsonl_file as one function of the file and the budget: the loop
\* of lines 118-130 from line i on
RECURSIVE ScanFrom(_, _, _, _)
ScanFrom(ls, n, errs, m) ==
    IF n = Len(ls) THEN errs
    ELSE IF Strip(ls[n + 1]) = <<>> THEN ScanFrom(ls, n + 1, errs, m)
    ELSE IF JsonLoads(ls[n + 1], FALSE).ok THEN ScanFrom(ls, n + 1, errs, m)
    ELSE IF Len(errs) + 1 >= m THEN Append(errs, n + 1)
    ELSE ScanFrom(ls, n + 1, Append(errs, n + 1), m)

validate_jsonl_file(f, m) ==
    IF f.kind = "missing" THEN [valid |-> FALSE, error_lines |-> <<>>]
    ELSE LET t == ReadText(f, "ignore")
         IN  IF t.exc # "none" THEN [valid |-> FALSE, error_lines |-> <<>>]
             ELSE LET errs == ScanFrom(SplitLines(t.text, <<>>), 0, <<>>, m)
                  IN  [valid |-> Len(errs) = 0, error_lines |-> errs]

\* file.endswith(suffix), a file name being the sequence of its characters
EndsWith(name, suffix) ==
    /\ Len(name) >= Len(suffix)
    /\ SubSeq(name, Len(name) - Len(suffix) + 1, Len(name)) = suffix

DotJson  == <<".", "j", "s", "o", "n">>
DotJsonl == <<".", "j", "s", "o", "n", "l">>

\* the report of line 156-160 and the one of line 154
Count(total, valid, invalid) == [total |-> total, valid |-> valid, invalid |-> invalid]

NewResults ==
    [valid |-> TRUE, error |-> "",
     json_files |-> Count(0, 0, <<>>), jsonl_files |-> Count(0, 0, <<>>)]

DirectoryNotFound == [valid |-> FALSE, error |-> "Directory not found"]

\* lines 152-160; d is what os.walk finds under data_dir, its files in the
\* order of the walk
DirCall(d) ==
    /\ pc = "idle"
    /\ caller' = "dir"
    /\ dir' = d
    /\ walked' = 0
    /\ IF ~d.exists
       THEN /\ logs' = <<"error">>
            /\ results' = DirectoryNotFound
            /\ pc' = "done"
       ELSE /\ logs' = <<>>
            /\ results' = NewResults
            /\ pc' = "walk"
    /\ UNCHANGED <<file, raised, loadVars, rangeVars, jsonlVars, raw_string,
                   sanitized, is_valid>>

\* DirVisit without results["valid"] = False in the .jsonl branch
DirVisit_JsonlKeepsValid ==
    /\ pc = "walk"
    /\ walked < Len(dir.files)
    /\ walked' = walked + 1
    /\ LET entry == dir.files[walked + 1]
           v     == validate_jsonl_file(entry.file, DefaultMaxErrors)
           j     == results.json_files
           l     == results.jsonl_files
       IN  IF EndsWith(entry.name, DotJson)
           THEN results' =
                    IF validate_json_file(entry.file).valid
                    THEN [results EXCEPT !.json_files = Count(j.total + 1, j.valid + 1, j.invalid)]
                    ELSE [results EXCEPT !.valid = FALSE,
                              !.json_files = Count(j.total + 1, j.valid, Append(j.invalid, walked + 1))]
           ELSE IF EndsWith(entry.name, DotJsonl)
           THEN results' =
                    IF v.valid
                    THEN [results EXCEPT !.jsonl_files = Count(l.total + 1, l.valid + 1, l.invalid)]
                    ELSE [results EXCEPT !.jsonl_files =
                              Count(l.total + 1, l.valid,
                                    Append(l.invalid, [file |-> walked + 1,
                                                       error_lines |-> v.error_lines]))]
           ELSE UNCHANGED results
    /\ UNCHANGED <<file, pc, caller, raised, loadVars, logs, rangeVars, jsonlVars,
                   raw_string, sanitized, is_valid, dir>>

\* lines 163-185: one file of the walk; its path is its place in the walk
DirVisit ==
    /\ pc = "walk"
    /\ walked < Len(dir.files)
    /\ walked' = walked + 1
    /\ LET entry     == dir.files[walked + 1]
           file_path == walked + 1
           j         == results.json_files
           l         == results.jsonl_files
       IN  IF EndsWith(entry.name, DotJson)
           THEN LET v == validate_json_file(entry.file)
                IN  /\ raised' = v.exc
                    /\ pc' = IF v.exc = "none" THEN pc ELSE "raised"
                    /\ results' =
                         IF v.exc # "none" THEN results
                         ELSE IF v.valid
                         THEN [results EXCEPT
                                  !.json_files = Count(j.total + 1, j.valid + 1, j.invalid)]
                         ELSE [results EXCEPT
                                  !.valid = FALSE,
                                  !.json_files = Count(j.total + 1, j.valid,
                                                       Append(j.invalid, file_path))]
           ELSE IF EndsWith(entry.name, DotJsonl)
           THEN LET v == validate_jsonl_file(entry.file, DefaultMaxErrors)
                IN  /\ UNCHANGED <<pc, raised>>
                    /\ results' =
                         IF v.valid
                         THEN [results EXCEPT
                                  !.jsonl_files = Count(l.total + 1, l.valid + 1, l.invalid)]
                         ELSE [results EXCEPT
                                  !.valid = FALSE,
                                  !.jsonl_files =
                                      Count(l.total + 1, l.valid,
                                            Append(l.invalid,
                                                   [file |-> file_path,
                                                    error_lines |-> v.error_lines]))]
           ELSE UNCHANGED <<pc, raised, results>>
    /\ UNCHANGED <<file, caller, loadVars, logs, rangeVars, jsonlVars,
                   raw_string, sanitized, is_valid, dir>>

\* line 187
DirReturn ==
    /\ pc = "walk"
    /\ walked = Len(dir.files)
    /\ pc' = "done"
    /\ UNCHANGED <<file, caller, raised, loadVars, logs, rangeVars, jsonlVars,
                   otherVars>>

MaxFiles == 2

\* names with and without the two suffixes
FileNames ==
    {<<"a">> \o DotJson, <<"a">> \o DotJsonl, <<"a", ".", "t", "x", "t">>,
     <<"j", "s", "o", "n">>}

\* a number, a string that only the non-strict parse accepts, a line of JSON
\* followed by a malformed one, a file that cannot be opened and a link to
\* nothing
DirFiles ==
    {Regular(<<D1>>), Regular(<<QUOTE, NL, QUOTE>>), Regular(<<D1, NL, LB>>),
     Unreadable, Missing}

DirEntries == {[name |-> n, file |-> f] : n \in FileNames, f \in DirFiles}

Directories ==
    {NoDir} \cup {[exists |-> TRUE, files |-> fs] : fs \in SeqsUpTo(DirEntries, MaxFiles)}

InitDir == file = Missing /\ Idle

NextDir ==
    \/ \E d \in Directories : DirCall(d)
    \/ DirVisit
    \/ DirReturn
    \/ Return

SpecDir == InitDir /\ [][NextDir]_vars

(***************************************************************************)
(* Properties of load_json_safe (checked under SpecLoad)                   *)
(***************************************************************************)
StrategyResult(k) ==
    CASE k = 1 -> Strategy1Result
      [] k = 2 -> Strategy2Result
      [] k = 3 -> Strategy3Result

LoadReturned == caller = "load" /\ pc = "loaded"

LoadSafe ==
    caller = "load" =>
        /\ raised = "none"
        /\ pc \in {"s1", "s2", "s3", "loaded"}
        /\ Len(attempts) <= 3
        /\ pc # "loaded" => Len(attempts) < 3
        /\ pc = "loaded" =>
               \/ result = default
               \/ \E k \in 1..3 : /\ StrategyResult(k).exc = "none"
                                  /\ result = StrategyResult(k).doc

\* a step of a call in progress uses up one of its three attempts
LoadProgress ==
    (caller = "load" /\ pc # "loaded") => Len(attempts') = Len(attempts) + 1

\* C1: whatever the path holds (nothing, an unreadable file, valid or
\* malformed JSON, invalid UTF-8, NUL bytes) and whatever the default, a call
\* of load_json_safe lets no exception out and ends after at most three
\* attempts, each step using one up; what it returns is the document of a
\* strategy that succeeded, or the default.
C1_LoadNeverRaises == []LoadSafe /\ [][LoadProgress]_vars

\* a file of invalid UTF-8 that no strategy can parse was given up on and the
\* default handed back
C1_Witness ==
    /\ LoadReturned
    /\ file.kind = "regular"
    /\ Decode(file.bytes, "strict").ok = FALSE
    /\ NUL \in {file.bytes[n] : n \in 1..Len(file.bytes)}
    /\ Len(attempts) = 3
    /\ default = Fallback
    /\ result = Fallback

\* C2: on a path that does not exist the call returns exactly the default,
\* having run no strategy and opened no file.
C2_MissingReturnsDefault ==
    (caller = "load" /\ file.kind = "missing") =>
        /\ pc = "loaded"
        /\ raised = "none"
        /\ result = default
        /\ attempts = <<>>
        /\ opens = 0

C2_Witness ==
    /\ LoadReturned
    /\ file.kind = "missing"
    /\ default = Fallback
    /\ result = Fallback

\* C3: the strategies run in the order 1, 2, 3; each one runs only after the
\* one before it failed, none runs after a success, and the value returned
\* after a success is the document of the first strategy that succeeds on
\* the file.
C3_OrderedFirstSuccess ==
    (caller = "load" /\ file.kind # "missing") =>
        /\ Len(attempts) <= 3
        /\ \A k \in 1..Len(attempts) :
               /\ attempts[k].strategy = k
               /\ attempts[k].ok = (StrategyResult(k).exc = "none")
               /\ k < Len(attempts) => ~attempts[k].ok
        /\ pc \in {"s1", "s2", "s3"} =>
               /\ pc = <<"s1", "s2", "s3">>[Len(attempts) + 1]
               /\ \A k \in 1..Len(attempts) : ~attempts[k].ok
        /\ (pc = "loaded" /\ \E k \in 1..3 : StrategyResult(k).exc = "none") =>
               LET first == CHOOSE k \in 1..3 :
                                /\ StrategyResult(k).exc = "none"
                                /\ \A j \in 1..(k - 1) : StrategyResult(j).exc # "none"
               IN  /\ Len(attempts) = first
                   /\ attempts[first].ok
                   /\ result = StrategyResult(first).doc

\* strategy 2 succeeded after strategy 1 failed, and there is a third
\* strategy that would have given another document
C3_Witness ==
    /\ LoadReturned
    /\ attempts = <<Attempt(1, FALSE), Attempt(2, TRUE)>>
    /\ Strategy3Result.exc = "none"
    /\ Strategy3Result.doc # result
    /\ result = Strategy2Result.doc

\* C4: on an existing file that none of the three strategies can parse the
\* call returns the default (None when the caller gave none) and raises
\* nothing.
C4_AllFailReturnsDefault ==
    (/\ LoadReturned
     /\ file.kind # "missing"
     /\ \A k \in 1..3 : StrategyResult(k).exc # "none") =>
        /\ result = default
        /\ raised = "none"
        /\ Len(attempts) = 3

C4_Witness ==
    /\ LoadReturned
    /\ file = Regular(<<LB, D1>>)
    /\ default = Fallback
    /\ result = Fallback

\* json.loads(raw bytes): a leading byte order mark is skipped (utf-8-sig),
\* the bytes are decoded and parsed with strict=True
RawBytesDecode(b) ==
    LET body == IF b # <<>> /\ Head(b) = BOM THEN Tail(b) ELSE b
        t    == Decode(body, "strict")
    IN  IF t.ok THEN JsonLoads(t.text, TRUE) ELSE [ok |-> FALSE, doc |-> None]

\* the file's bytes are valid UTF-8 and the text they encode is a JSON text
ValidUtf8Json(f) ==
    /\ f.kind = "regular"
    /\ Decode(f.bytes, "strict").ok
    /\ JsonLoads(Decode(f.bytes, "strict").text, TRUE).ok

\* C5: on a file holding valid UTF-8 JSON the call returns the document that
\* decoding the file's raw bytes with the JSON decoder gives.
C5_ValidJsonRoundTrip ==
    (LoadReturned /\ ValidUtf8Json(file)) =>
        /\ RawBytesDecode(file.bytes).ok
        /\ result = RawBytesDecode(file.bytes).doc

\* a document with non-ASCII text, written and read back
C5_Witness ==
    /\ LoadReturned
    /\ file = Written(Obj(<<Pair(<<D1>>, Str(<<EACUTE, SP, EACUTE>>))>>))
    /\ result = Obj(<<Pair(<<D1>>, Str(<<EACUTE, SP, EACUTE>>))>>)

(***************************************************************************)
(* Properties of validate_jsonl_file (checked under SpecJsonl)             *)
(***************************************************************************)
\* The physical lines of a file, by its bytes: line j holds the bytes that
\* come after j - 1 newline bytes, its newline left out
CountNL(b, p) == Cardinality({q \in 1..p : b[q] = NL})

NumLines(b) ==
    CountNL(b, Len(b)) + (IF b # <<>> /\ b[Len(b)] # NL THEN 1 ELSE 0)

LineBytes(b, j) ==
    LET at == {p \in 1..Len(b) : b[p] # NL /\ CountNL(b, p) = j - 1}
    IN  IF at = {} THEN <<>>
        ELSE LET first == CHOOSE p \in at : \A q \in at : p <= q
             IN  [n \in 1..Cardinality(at) |-> b[first + n - 1]]

\* what the line reads as once its undecodable bytes are dropped
LineText(b, j) == Decode(LineBytes(b, j), "ignore").text

BlankLine(b, j) ==
    \A n \in 1..Len(LineText(b, j)) : LineText(b, j)[n] \in Whitespace

MalformedLine(b, j) ==
    ~BlankLine(b, j) /\ ~JsonLoads(LineText(b, j), FALSE).ok

Malformed(b) == {j \in 1..NumLines(b) : MalformedLine(b, j)}

Ascending(S) ==
    CHOOSE q \in [1..Cardinality(S) -> S] : \A a, c \in 1..Cardinality(S) : a < c => q[a] < q[c]

Elements(q) == {q[n] : n \in 1..Len(q)}

JsonlReturned == caller = "jsonl" /\ pc = "done"

\* C6: on an existing JSONL file of which K lines are malformed, K within the
\* error budget, and the others valid or blank, the call returns (K = 0, the
\* 1-based physical numbers of the K malformed lines in increasing order).
C6_ReportsMalformedLines ==
    (/\ JsonlReturned
     /\ file.kind = "regular"
     /\ Cardinality(Malformed(file.bytes)) <= max_errors) =>
        ret = [valid |-> Malformed(file.bytes) = {},
               error_lines |-> Ascending(Malformed(file.bytes))]

\* two malformed lines around a blank one, the budget just reached
C6_Witness ==
    /\ JsonlReturned
    /\ max_errors = 2
    /\ NumLines(file.bytes) = 3
    /\ BlankLine(file.bytes, 2)
    /\ ret = [valid |-> FALSE, error_lines |-> <<1, 3>>]

\* C7 as stated: after every call, on an existing file, a missing file or a
\* file that cannot be read, the flag returned is true exactly when the list
\* returned is empty.
C7_Original ==
    JsonlReturned => (ret.valid <=> ret.error_lines = <<>>)

\* C7 as amended: the flag returned is true exactly when the list returned is
\* empty after every call that opened and scanned the file; on a missing
\* file and on a file that cannot be opened the call returns (False, []).
C7_ValidIffNoErrorsWhenScanned ==
    JsonlReturned =>
        IF file.kind = "regular"
        THEN ret.valid <=> ret.error_lines = <<>>
        ELSE ret = [valid |-> FALSE, error_lines |-> <<>>]

C7_Witness ==
    /\ JsonlReturned
    /\ file.kind = "regular"
    /\ max_errors = DefaultMaxErrors
    /\ ~ret.valid
    /\ Len(ret.error_lines) = 2

\* C8 as stated: whatever the file and the value of max_errors, the list of
\* failing line numbers never holds more than max_errors entries, and once
\* the line that reached the budget was examined no later line is.
C8_Original ==
    caller = "jsonl" =>
        /\ Len(error_lines) <= max_errors
        /\ Len(ret.error_lines) <= max_errors
        /\ (error_lines # <<>> /\ Len(error_lines) >= max_errors) =>
               /\ i = error_lines[Len(error_lines)]
               /\ \A n \in Elements(examined) : n <= error_lines[Len(error_lines)]

\* C9: a blank or whitespace-only line is skipped: it is never handed to the
\* parser and never reported, so it uses up no error budget, and it still
\* counts as a line: the lines examined so far are exactly the non-blank
\* ones among the first i physical lines, under their physical numbers.
C9_BlankLinesSkipped ==
    (caller = "jsonl" /\ file.kind = "regular") =>
        /\ \A n \in Elements(examined) \cup Elements(error_lines) \cup Elements(ret.error_lines) :
               ~BlankLine(file.bytes, n)
        /\ Elements(error_lines) \subseteq Elements(examined)
        /\ Len(error_lines) <= Cardinality({j \in 1..i : ~BlankLine(file.bytes, j)})
        /\ examined = Ascending({j \in 1..i : ~BlankLine(file.bytes, j)})

\* a malformed third line reported as line 3 after two blank lines, one of
\* them a space and an undecodable byte, with a budget of one
C9_Witness ==
    /\ JsonlReturned
    /\ max_errors = 1
    /\ LineBytes(file.bytes, 1) = <<>>
    /\ LineBytes(file.bytes, 2) = <<SP, CONT>>
    /\ examined = <<3>>
    /\ ret.error_lines = <<3>>

(***************************************************************************)
(* Properties of get_data_in_range (checked under SpecRange)               *)
(***************************************************************************)
RangeEnded == caller = "range" /\ pc \in {"done", "raised"}

\* a value is empty when it is a list, mapping or string of length 0
NonEmpty(v) == ~(HasLen(v) /\ PyLen(v) = 0)

\* the entries of a mapping whose key is within [start, end] and whose value
\* is not empty
EntriesInRange(data, start, end) ==
    LET Wanted(e) == StrLeq(start, e.k) /\ StrLeq(e.k, end) /\ NonEmpty(e.val)
    IN  SelectSeq(data.items, Wanted)

\* C10 as stated: for every loaded mapping and every start and end, the call
\* returns exactly the entries, key and value unchanged, whose key k has
\* start <= k <= end as strings and whose value is not empty.
C10_Original ==
    (RangeEnded /\ result.t = "obj") =>
        /\ raised = "none"
        /\ filtered = Obj(EntriesInRange(result, start_date, end_date))

\* What the code does on a loaded mapping: it returns those entries unless
\* the value under some key within the range has no length (a number), and
\* then len(value) raises TypeError out of the call.  On the mapping of the
\* specification's example, with end between its second and third key, the
\* first entry alone is returned.
RangeFilterOrTypeError ==
    /\ (RangeEnded /\ result.t = "obj") =>
           IF \E n \in 1..Len(result.items) :
                  /\ InRange(result.items[n].k, start_date, end_date)
                  /\ ~HasLen(result.items[n].val)
           THEN raised = "TypeError"
           ELSE /\ raised = "none"
                /\ filtered = Obj(EntriesInRange(result, start_date, end_date))
    /\ (/\ RangeEnded
        /\ file = Written(ExampleMapping)
        /\ start_date = <<D1>>
        /\ end_date = <<D1, D2, D1>>) =>
           filtered = Obj(<<Pair(<<D1>>, Arr(<<Elem(Num(<<D1>>))>>))>>)

\* no strategy of load_json_safe can load the file: the loader falls back to
\* its default
LoaderFallsBack == \A k \in 1..3 : StrategyResult(k).exc # "none"

\* C11: whenever the data file is missing or the loader falls back to its
\* default, get_data_in_range raises nothing and returns the empty mapping.
C11_AbsentDataIsEmpty ==
    (caller = "range" /\ (file.kind = "missing" \/ LoaderFallsBack)) =>
        /\ pc # "raised"
        /\ raised = "none"
        /\ pc = "done" => filtered = Obj(<<>>)

\* a call returned the empty mapping after all three strategies failed on a
\* file that exists
C11_Witness ==
    /\ RangeEnded
    /\ file.kind # "missing"
    /\ LoaderFallsBack
    /\ attempts = <<Attempt(1, FALSE), Attempt(2, FALSE), Attempt(3, FALSE)>>
    /\ pc = "done"
    /\ filtered = Obj(<<>>)

(***************************************************************************)
(* Properties of sanitize_json_string (checked under SpecSanitize)         *)
(***************************************************************************)
HasNul(s) == \E n \in 1..Len(s) : s[n] = NUL

\* C12: sanitizing the result of sanitize_json_string again gives the same
\* string, and no result contains a NUL character.
C12_SanitizeIdempotent ==
    caller = "sanitize" =>
        \A n \in 1..Len(sanitized) :
            /\ ~HasNul(sanitized[n])
            /\ n > 1 => sanitized[n] = sanitized[n - 1]

\* a string with two NUL characters was sanitized and its result sanitized
\* again
C12_Witness ==
    /\ caller = "sanitize"
    /\ Len(sanitized) = 2
    /\ Cardinality({n \in 1..Len(raw_string) : raw_string[n] = NUL}) >= 2
    /\ Len(sanitized[1]) = Len(raw_string) - 2
    /\ Len(sanitized[1]) > 0

(***************************************************************************)
(* Files with embedded NUL bytes (checked under SpecLoad)                  *)
(***************************************************************************)
WithoutNul(b) == LET NotNul(x) == x # NUL IN SelectSeq(b, NotNul)

\* the file holds at least one NUL byte and is valid UTF-8 JSON without them
NulInJson(f) ==
    /\ f.kind = "regular"
    /\ HasNul(f.bytes)
    /\ ValidUtf8Json(Regular(WithoutNul(f.bytes)))

\* the document the file holds once its NUL bytes are left out
DocWithoutNul(f) == JsonLoads(Decode(WithoutNul(f.bytes), "strict").text, TRUE).doc

\* byte n lies between the quotes of a string literal
InStringLiteral(b, n) == Cardinality({q \in 1..(n - 1) : b[q] = QUOTE}) % 2 = 1

NulOutsideStrings(b) == \E n \in 1..Len(b) : b[n] = NUL /\ ~InStringLiteral(b, n)

RecoveredByStrategy3 ==
    /\ attempts = <<Attempt(1, FALSE), Attempt(2, FALSE), Attempt(3, TRUE)>>
    /\ result = DocWithoutNul(file)

\* C13 as stated: on a file with an embedded NUL byte and otherwise valid
\* JSON, strategies 1 and 2 fail and strategy 3 returns the document parsed
\* from the text with the NUL stripped.
C13_Original == (LoadReturned /\ NulInJson(file)) => RecoveredByStrategy3

\* What the code does on such a file: when a NUL lies outside the string
\* literals, strategies 1 and 2 fail and strategy 3 returns the document of
\* the text without NUL; when every NUL lies inside a string literal,
\* strategy 1 or strategy 2 returns a document that still holds the NUL, and
\* strategy 3 and the sanitizer are never reached.
NulOutsideStringsRecovered ==
    (LoadReturned /\ NulInJson(file)) =>
        IF NulOutsideStrings(file.bytes)
        THEN RecoveredByStrategy3
        ELSE /\ attempts \in {<<Attempt(1, TRUE)>>,
                              <<Attempt(1, FALSE), Attempt(2, TRUE)>>}
             /\ result # DocWithoutNul(file)
             /\ attempts = <<Attempt(1, TRUE)>> =>
                    result = JsonLoads(Decode(file.bytes, "strict").text, FALSE).doc

(***************************************************************************)
(* Properties of validate_data_directory (checked under SpecDir)           *)
(***************************************************************************)
\* validate_jsonl_file as a function returns what its steps return (checked
\* under SpecJsonl)
JsonlFunctionAgrees == JsonlReturned => ret = validate_jsonl_file(file, max_errors)

DirReturned == caller = "dir" /\ pc = "done" /\ dir.exists

\* the places in the walk of the files whose name ends with the suffix
Named(suffix) == {k \in 1..Len(dir.files) : EndsWith(dir.files[k].name, suffix)}

JsonOk(k)  == validate_json_file(dir.files[k].file).valid
JsonlOk(k) == validate_jsonl_file(dir.files[k].file, DefaultMaxErrors).valid

\* the members of a set of places, in the order of the walk
RECURSIVE InWalkOrder(_, _)
InWalkOrder(S, k) ==
    IF k > Len(dir.files) THEN <<>>
    ELSE (IF k \in S THEN <<k>> ELSE <<>>) \o InWalkOrder(S, k + 1)

Balanced(c) == c.total = c.valid + Len(c.invalid)

\* C14: on an existing directory every .json file is checked with
\* validate_json_file and every .jsonl file with validate_jsonl_file, no file
\* in both categories; per category total = valid + number of invalid
\* entries, and the top-level flag is true exactly when both invalid lists
\* are empty.
C14_DirectoryReport ==
    /\ (caller = "dir" /\ pc = "walk") =>
           /\ Balanced(results.json_files)
           /\ Balanced(results.jsonl_files)
           /\ results.json_files.total + results.jsonl_files.total <= walked
    /\ DirReturned =>
           LET j == results.json_files
               l == results.jsonl_files
               badJson  == InWalkOrder({k \in Named(DotJson) : ~JsonOk(k)}, 1)
               badJsonl == InWalkOrder({k \in Named(DotJsonl) : ~JsonlOk(k)}, 1)
           IN  /\ Named(DotJson) \cap Named(DotJsonl) = {}
               /\ j.total = Cardinality(Named(DotJson))
               /\ j.valid = Cardinality({k \in Named(DotJson) : JsonOk(k)})
               /\ j.invalid = badJson
               /\ l.total = Cardinality(Named(DotJsonl))
               /\ l.valid = Cardinality({k \in Named(DotJsonl) : JsonlOk(k)})
               /\ Len(l.invalid) = Len(badJsonl)
               /\ \A n \in 1..Len(l.invalid) :
                      /\ l.invalid[n].file = badJsonl[n]
                      /\ l.invalid[n].error_lines =
                             validate_jsonl_file(dir.files[badJsonl[n]].file,
                                                 DefaultMaxErrors).error_lines
               /\ Balanced(j)
               /\ Balanced(l)
               /\ results.valid <=> (j.invalid = <<>> /\ l.invalid = <<>>)

\* a directory of a valid .jsonl file and a .json file that only the
\* non-strict parse accepts: one invalid entry, the flag false
C14_Witness ==
    /\ DirReturned
    /\ Len(dir.files) = 2
    /\ dir.files[1] = [name |-> <<"a">> \o DotJsonl, file |-> Regular(<<D1>>)]
    /\ dir.files[2] = [name |-> <<"a">> \o DotJson, file |-> Regular(<<QUOTE, NL, QUOTE>>)]
    /\ results.jsonl_files = Count(1, 1, <<>>)
    /\ results.json_files = Count(1, 0, <<2>>)
    /\ ~results.valid

(***************************************************************************)
(* Log entries of load_json_safe (checked under SpecLoad)                  *)
(***************************************************************************)
Logged(level) == Cardinality({n \in 1..Len(logs) : logs[n] = level})

FailedAmong(S) ==
    Cardinality({n \in 1..Len(attempts) : attempts[n].strategy \in S /\ ~attempts[n].ok})

OnExistingFile == caller = "load" /\ file.kind # "missing"

\* C15 as stated: on an existing file every strategy that fails emits a
\* warning, an error entry is emitted exactly when all three strategies have
\* failed, and a call that succeeds emits no error entry.
C15_Original ==
    OnExistingFile =>
        /\ Logged("warning") = FailedAmong({1, 2, 3})
        /\ LoadReturned => (Logged("error") > 0 <=> FailedAmong({1, 2, 3}) = 3)

\* C15 amended: each failure of strategy 1 or 2 emits one warning; a failure
\* of strategy 3 emits one error entry and no warning; so an error entry is
\* emitted exactly when all three strategies have failed, and a call that
\* succeeds emits none.
C15_WarningsThenError ==
    OnExistingFile =>
        /\ Logged("warning") = FailedAmong({1, 2})
        /\ Logged("error") = FailedAmong({3})
        /\ Len(logs) = FailedAmong({1, 2, 3})
        /\ LoadReturned =>
               /\ Logged("error") > 0 <=> FailedAmong({1, 2, 3}) = 3
               /\ attempts[Len(attempts)].ok => Logged("error") = 0

\* a call on which all three strategies failed: two warnings, then the error
C15_Witness ==
    /\ LoadReturned
    /\ file.kind = "regular"
    /\ FailedAmong({1, 2, 3}) = 3
    /\ logs = <<"warning", "warning", "error">>

(***************************************************************************)
(* validate_json_file against load_json_safe (checked under SpecAgree)     *)
(***************************************************************************)
\* validate_json_file was called on the file after load_json_safe returned
ValidatedAfterLoad == caller = "validate" /\ pc = "done" /\ attempts # <<>>

\* the document the strict parse of the file's text produces
StrictDoc(f) == JsonLoads(Decode(f.bytes, "strict").text, TRUE).doc

\* C16: whenever validate_json_file returns True on a file, load_json_safe on
\* that file has succeeded at strategy 1, without attempting strategy 2 or 3,
\* and returned the document the strict parse produces.
C16_ValidatorLoaderAgree ==
    (ValidatedAfterLoad /\ is_valid = TRUE) =>
        /\ attempts = <<Attempt(1, TRUE)>>
        /\ opens = 1
        /\ result = StrictDoc(file)
        /\ logs = <<>>

\* a mapping file was loaded at strategy 1 and then validated
C16_Witness ==
    /\ ValidatedAfterLoad
    /\ is_valid = TRUE
    /\ attempts = <<Attempt(1, TRUE)>>
    /\ result.t = "obj"
    /\ result.items # <<>>
    /\ result # default

====
